---- MODULE Spec2Model ----
(***************************************************************************)
(* Model of rssfeed.py: the poll / dedup / delivery pipeline built by       *)
(* make_handlers and its reconnect handler.                                *)
(*                                                                         *)
(* Two execution contexts are modelled.  The reactor (event-loop) thread   *)
(* runs the handlers; the executor's worker threads run the fetcher and    *)
(* the _done callback, whose only effect is results.put.  Python strings   *)
(* are sequences of one-character strings, so that strip(), len() and      *)
(* concatenation are computed, not assumed.                                *)
(***************************************************************************)
EXTENDS Integers, Sequences, FiniteSets, TLC

VARIABLES
    feeds,        \* the feed list handed to make_handlers (immutable)
    seen,         \* state.seen: feed url -> set of stripped titles
    fetching,     \* state.fetching
    pending,      \* state.pending
    results,      \* the queue.Queue of (feed, payload), oldest first
    running,      \* executor jobs whose _done has not run yet: url -> count
    executor,     \* the worker pool: its size and the jobs that hold a thread
    connected,    \* what connection.is_connected() returns
    event,        \* the transport event waiting to be dispatched
    everyDrain,   \* scheduler: execute_every registrations of drain_queue
    everyPoll,    \* scheduler: execute_every registrations of check_all_rss
    delayed,      \* scheduler: execute_after entries not fired yet
    evpc,         \* where the reactor thread stands inside a handler
    handler,      \* the step taken last
    out,          \* what the step taken last printed, sent and called
    drops,        \* how often the link was lost so far
    fails         \* consecutive failed reconnect attempts

vars == <<feeds, seen, fetching, pending, results, running, executor, connected,
          event, everyDrain, everyPoll, delayed, evpc, handler, out, drops, fails>>

---------------------------------------------------------------------------
(* Bounds of the model. *)

\* number of feeds of the largest feed list
NumFeeds == 2
\* longest entry list a fetch returns
MaxItems == 2
\* how often the transport may lose the link
MaxDrops == 1
\* longest run of consecutive failed reconnect attempts
MaxFails == 2
\* number of feeds of the largest feed list the worker pool is followed with
MaxPoolFeeds == 9
\* most outcomes waiting in the result queue while the pool is followed
MaxQueued == 2

\* longest description handed to format_message
MaxDesc == 6
\* most room, in characters, a generated title leaves for a description
MaxRoom == 5

(* Program constants. *)

\* sleeper(60) in on_disconnect
RECONNECT_SLEEP == 60
\* execute_after(60, ...) in on_disconnect
RETRY_DELAY == 60
\* execute_every(1, ...) in schedule_check
DRAIN_INTERVAL == 1
IRC_SAFE_MESSAGE_LEN == 400

---------------------------------------------------------------------------
(* Strings. *)

\* F applied to v, with v evaluated a single time and not once for every
\* place in which F uses it
Once(v, F(_)) == CHOOSE x \in { F(y) : y \in {v} } : TRUE

RECURSIVE LStrip(_)
LStrip(s) ==
    IF s = <<>> THEN s
    ELSE IF Head(s) = " " THEN LStrip(Tail(s)) ELSE s

RECURSIVE RStrip(_)
RStrip(s) ==
    IF s = <<>> THEN s
    ELSE IF s[Len(s)] = " " THEN RStrip(SubSeq(s, 1, Len(s) - 1)) ELSE s

\* str.strip()
Strip(s) == RStrip(LStrip(s))

RECURSIVE Reverse(_)
Reverse(s) ==
    IF s = <<>> THEN <<>> ELSE Append(Reverse(Tail(s)), Head(s))

\* item.get(key) or "": a missing key and an empty value both give ""
GetOrEmpty(item, key) ==
    IF key \in DOMAIN item THEN item[key] ELSE <<>>

---------------------------------------------------------------------------
(* Configuration and inputs. *)

\* An InstanceConfig.  extract_url and include_description are off, so a
\* message is format_message(title, link, prefix, None).
Config ==
    [ channel |-> "#chan", refresh_minutes |-> 5, server |-> "irc.test",
      port |-> 6667, nick |-> "demo", ircname |-> <<"D", "e", "m", "o">>,
      multisource |-> TRUE, extract_url |-> FALSE,
      include_description |-> FALSE ]

\* Feed(url, name); every second feed has no name (None is the empty name:
\* both are falsy in "config.multisource and feed.name")
Feed(i) ==
    [ url |-> i, name |-> IF i % 2 = 1 THEN <<"N">> ELSE <<>> ]

FeedLists == { [i \in 1..n |-> Feed(i)] : n \in 0..NumFeeds }

Urls == 1..NumFeeds

\* Entries a fetch can return: three titles that need stripping, and an
\* entry with no title at all.  A list may hold the same entry twice.
Items ==
    { [ title |-> <<" ", "a">>, link |-> <<"x", " ">> ],
      [ title |-> <<"b", " ">>, link |-> <<"y">> ],
      [ title |-> <<"c">>, link |-> <<"z">> ],
      [ link |-> <<"v">> ] }

\* the entries without the third title
FewerItems == { item \in Items : GetOrEmpty(item, "title") # <<"c">> }

RECURSIVE SeqsUpTo(_, _)
SeqsUpTo(S, n) ==
    IF n = 0 THEN { <<>> }
    ELSE LET shorter == SeqsUpTo(S, n - 1)
         IN  shorter \cup { Append(s, x) : s \in { t \in shorter : Len(t) = n - 1 }, x \in S }

\* What a finished fetch puts on the queue: the entry list, or the
\* exception.  With a single feed the lists have up to MaxItems entries of
\* all titles; with more feeds they are one entry shorter and of fewer
\* titles.
Payloads ==
    { [ ok |-> TRUE, items |-> s ] :
        s \in IF Len(feeds) = 1 THEN SeqsUpTo(Items, MaxItems)
                                ELSE SeqsUpTo(FewerItems, MaxItems - 1) }
    \cup { [ ok |-> FALSE, error |-> "boom" ] }

\* on_msg inputs: event.arguments[0], or no arguments at all
Messages ==
    { <<"~", "r", "e", "f", "r", "e", "s", "h", "!">>,
      <<"~", "m", "s", "g", " ", "t", " ", "b", " ", "c">>,
      <<"~", "m", "s", "g", " ", "t">>,
      <<"h", "i">> }

---------------------------------------------------------------------------
(* Pure functions. *)

\* " \x0314::\x03 ", with \x02 written "^B" and \x03 written "^C"
SEPARATOR == <<" ", "^C", "1", "4", ":", ":", "^C", " ">>

BOLD == <<"^B">>

\* format_message cutting at the budget without leaving room for "..."
format_message_no_ellipsis(title, link, prefix, description) ==
    LET base == prefix \o BOLD \o title \o BOLD \o SEPARATOR \o link
        remaining == IRC_SAFE_MESSAGE_LEN - Len(base) - Len(SEPARATOR)
        stripped == Strip(description)
        desc == IF Len(stripped) > remaining
                THEN SubSeq(stripped, 1, remaining)
                ELSE stripped
    IN  IF description = <<>> THEN base
        ELSE IF remaining <= 0 THEN base
        ELSE base \o SEPARATOR \o desc

\* format_message appending the whole description
format_message_untruncated(title, link, prefix, description) ==
    LET base == prefix \o BOLD \o title \o BOLD \o SEPARATOR \o link
        remaining == IRC_SAFE_MESSAGE_LEN - Len(base) - Len(SEPARATOR)
    IN  IF description = <<>> THEN base
        ELSE IF remaining <= 0 THEN base
        ELSE base \o SEPARATOR \o Strip(description)

\* format_message testing "remaining < 0" where the code tests "<= 0"
format_message_room_off_by_one(title, link, prefix, description) ==
    LET base == prefix \o BOLD \o title \o BOLD \o SEPARATOR \o link
        remaining == IRC_SAFE_MESSAGE_LEN - Len(base) - Len(SEPARATOR)
        stripped == Strip(description)
        desc == IF Len(stripped) > remaining
                THEN IF remaining >= 3
                     THEN RStrip(SubSeq(stripped, 1, remaining - 3)) \o <<".", ".", ".">>
                     ELSE SubSeq(stripped, 1, remaining)
                ELSE stripped
    IN  IF description = <<>> THEN base
        ELSE IF remaining < 0 THEN base
        ELSE base \o SEPARATOR \o desc

\* format_message(title, link, prefix, description); description None is <<>>
format_message(title, link, prefix, description) ==
    LET base == prefix \o BOLD \o title \o BOLD \o SEPARATOR \o link
        remaining == IRC_SAFE_MESSAGE_LEN - Len(base) - Len(SEPARATOR)
        stripped == Strip(description)
        desc == IF Len(stripped) > remaining
                THEN IF remaining >= 3
                     THEN RStrip(SubSeq(stripped, 1, remaining - 3)) \o <<".", ".", ".">>
                     ELSE SubSeq(stripped, 1, remaining)
                ELSE stripped
    IN  IF description = <<>> THEN base
        ELSE IF remaining <= 0 THEN base
        ELSE base \o SEPARATOR \o desc

\* the for loop of delta_items: s is the dict's key set, delta the list so far
RECURSIVE delta_loop(_, _, _)
delta_loop(s, new_items, delta) ==
    IF new_items = <<>> THEN [ seen |-> s, delta |-> delta ]
    ELSE LET item == Head(new_items)
         IN  Once(Strip(GetOrEmpty(item, "title")), LAMBDA title :
               IF title # <<>> /\ title \notin s
               THEN Once(<<s \cup {title}, Tail(new_items), Append(delta, item)>>,
                         LAMBDA a : delta_loop(a[1], a[2], a[3]))
               ELSE Once(Tail(new_items), LAMBDA rest : delta_loop(s, rest, delta)))

\* delta_items returning the delta on the first run too
delta_items_no_first_run(s, new_items) ==
    LET r == delta_loop(s, new_items, <<>>)
    IN  [ seen |-> r.seen, delta |-> r.delta ]

\* delta_items testing every title against the dict as it was at the call,
\* so that a title repeated in new_items is returned each time it occurs
delta_items_repeats(s, new_items) ==
    LET fresh(item) == Strip(GetOrEmpty(item, "title")) # <<>> /\ Strip(GetOrEmpty(item, "title")) \notin s
    IN  [ seen |-> delta_loop(s, new_items, <<>>).seen,
          delta |-> IF s = {} THEN <<>> ELSE SelectSeq(new_items, fresh) ]

\* delta_items(seen, new_items): the dict after the call, and the list returned
delta_items(s, new_items) ==
    LET empty == (s = {})
        r == delta_loop(s, new_items, <<>>)
    IN  [ seen |-> r.seen, delta |-> IF empty THEN <<>> ELSE r.delta ]

\* the prefix of _handle_feed_items
Prefix(feed) ==
    IF Config.multisource /\ feed.name # <<>>
    THEN <<"[">> \o feed.name \o <<"]", " ">>
    ELSE <<>>

\* printer(...), connection.privmsg(...) and other calls as recorded in out
Called(op, arg) == [ op |-> op, arg |-> arg ]

Printed(what, arg) == [ op |-> "print", what |-> what, arg |-> arg ]

Privmsg(target, text, url) ==
    [ op |-> "privmsg", target |-> target, text |-> text, feed |-> url ]

\* The for loop of _handle_feed_items over reversed(delta).  k counts the
\* privmsg calls of this drain pass so far; the call number failAt raises
\* ServerNotConnectedError (failAt = 0: none does).
RECURSIVE send_loop(_, _, _, _, _)
send_loop(items, feed, k, failAt, o) ==
    IF items = <<>> THEN [ out |-> o, raised |-> FALSE, k |-> k ]
    ELSE LET item == Head(items)
         IN  Once(Strip(GetOrEmpty(item, "title")), LAMBDA title :
             Once(Strip(GetOrEmpty(item, "link")), LAMBDA link :
             Once(Append(o, Printed("->", <<Prefix(feed), title, link>>)), LAMBDA o1 :
               IF k + 1 = failAt
               THEN [ out |-> o1, raised |-> TRUE, k |-> k + 1 ]
               ELSE Once(Tail(items), LAMBDA rest :
                    Once(Append(o1, Privmsg(Config.channel,
                                    format_message(title, link, Prefix(feed), <<>>),
                                    feed.url)), LAMBDA o2 :
                      send_loop(rest, feed, k + 1, failAt, o2))))))

\* _handle_feed_items iterating over delta instead of reversed(delta)
handle_feed_items_in_order(st, feed, new_items, failAt) ==
    Once(st.seen[feed.url], LAMBDA before :
    Once(delta_items(before, new_items), LAMBDA d :
    Once(Append(st.out, Called("delta_items", <<feed.url, before = {}>>)), LAMBDA o :
    Once(send_loop(d.delta, feed, st.k, failAt, o), LAMBDA r :
      [ st EXCEPT !.seen = [st.seen EXCEPT ![feed.url] = d.seen],
                  !.out = r.out, !.raised = r.raised, !.k = r.k ]))))

\* _handle_feed_items(connection, feed, new_items); st carries the state
\* drain_queue reads and writes.  The call of delta_items is recorded with
\* the feed and whether its seen dict was empty.
handle_feed_items(st, feed, new_items, failAt) ==
    Once(st.seen[feed.url], LAMBDA before :
    Once(delta_items(before, new_items), LAMBDA d :
    Once(Append(st.out, Called("delta_items", <<feed.url, before = {}>>)), LAMBDA o :
    Once(send_loop(Reverse(d.delta), feed, st.k, failAt, o), LAMBDA r :
      [ st EXCEPT !.seen = [st.seen EXCEPT ![feed.url] = d.seen],
                  !.out = r.out, !.raised = r.raised, !.k = r.k ]))))

\* a fetch failure that is not reported
fetch_failed_silently(st, feed, payload) == st

\* "printer(f"Error fetching {feed.url}: {payload}")"
fetch_failed(st, feed, payload) ==
    [ st EXCEPT !.out = Append(st.out,
                    Printed("Error fetching", <<feed.url, payload.error>>)) ]

\* a send failure that also throws the queued outcomes away
send_failed_drops_queue(st) ==
    [ st EXCEPT !.results = <<>>,
                !.out = Append(st.out, Printed("Lost connection while sending", <<>>)) ]

\* "except irc.client.ServerNotConnectedError: printer(...); return"
send_failed(st) ==
    [ st EXCEPT !.out = Append(st.out, Printed("Lost connection while sending", <<>>)) ]

\* the bookkeeping after a popped outcome that never clears fetching
finish_item_keeps_fetching(st) ==
    LET p == IF st.pending > 0 THEN st.pending - 1 ELSE st.pending
    IN  [ st EXCEPT !.pending = p ]

\* the bookkeeping after a popped outcome that clears fetching at once
finish_item_clears_early(st) ==
    LET p == IF st.pending > 0 THEN st.pending - 1 ELSE st.pending
    IN  [ st EXCEPT !.pending = p, !.fetching = FALSE ]

\* "if state.pending > 0: state.pending -= 1" and
\* "if state.pending == 0: state.fetching = False"
finish_item(st) ==
    LET p == IF st.pending > 0 THEN st.pending - 1 ELSE st.pending
    IN  [ st EXCEPT !.pending = p,
                    !.fetching = IF p = 0 THEN FALSE ELSE st.fetching ]

\* the while loop of drain_queue
RECURSIVE drain_loop(_, _)
drain_loop(st, failAt) ==
    IF st.results = <<>> THEN st
    ELSE LET feed == Head(st.results).feed
             payload == Head(st.results).payload
         IN  Once([ st EXCEPT !.results = Tail(st.results) ], LAMBDA st1 :
               IF ~payload.ok
               THEN Once(finish_item(fetch_failed(st1, feed, payload)),
                         LAMBDA st2 : drain_loop(st2, failAt))
               ELSE Once(handle_feed_items(st1, feed, payload.items, failAt),
                         LAMBDA st2 :
                           IF st2.raised
                           THEN send_failed(st2)
                           ELSE Once(finish_item(st2),
                                     LAMBDA st3 : drain_loop(st3, failAt))))

\* drain_queue without the is_connected() test
drain_queue_unchecked(failAt, o) ==
    drain_loop([ seen |-> seen, pending |-> pending, fetching |-> fetching,
                 results |-> results, out |-> o, k |-> 0, raised |-> FALSE ],
               failAt)

\* drain_queue that handles one outcome per call and leaves the rest queued
drain_queue_one_per_pass(failAt, o) ==
    LET st == [ seen |-> seen, pending |-> pending, fetching |-> fetching,
                results |-> results, out |-> o, k |-> 0, raised |-> FALSE ]
    IN  IF ~connected \/ results = <<>> THEN st
        ELSE [ drain_loop([ st EXCEPT !.results = <<Head(results)>> ], failAt)
                 EXCEPT !.results = Tail(results) ]

\* drain_queue taking the outcomes in the order of their feeds' urls (the
\* order of submission) instead of the order of arrival
drain_queue_by_url(failAt, o) ==
    LET sorted == IF Len(results) = 2 /\ results[1].feed.url > results[2].feed.url
                  THEN << results[2], results[1] >>
                  ELSE results
        st == [ seen |-> seen, pending |-> pending, fetching |-> fetching,
                results |-> sorted, out |-> o, k |-> 0, raised |-> FALSE ]
    IN  IF ~connected THEN st ELSE drain_loop(st, failAt)

\* drain_queue(connection), starting with o already in out
drain_queue(failAt, o) ==
    LET st == [ seen |-> seen, pending |-> pending, fetching |-> fetching,
                results |-> results, out |-> o, k |-> 0, raised |-> FALSE ]
    IN  IF ~connected THEN st ELSE drain_loop(st, failAt)

\* the privmsg calls a drain pass would make if none raised
SendsOfPass == drain_queue(0, <<>>).k

\* which privmsg of a pass may raise: none, or any one while the transport
\* may still lose the link
FailChoices ==
    IF drops < MaxDrops THEN 0..SendsOfPass ELSE {0}

---------------------------------------------------------------------------
(* More string helpers, for on_msg. *)

\* str.startswith
StartsWith(s, p) ==
    Len(s) >= Len(p) /\ SubSeq(s, 1, Len(p)) = p

\* position of the first " " of s at or after i, 0 when there is none
RECURSIVE FindSpace(_, _)
FindSpace(s, i) ==
    IF i > Len(s) THEN 0
    ELSE IF s[i] = " " THEN i ELSE FindSpace(s, i + 1)

\* s.split(" ", n)
RECURSIVE Split(_, _)
Split(s, n) ==
    LET i == FindSpace(s, 1)
    IN  IF n = 0 \/ i = 0 THEN <<s>>
        ELSE <<SubSeq(s, 1, i - 1)>> \o Split(SubSeq(s, i + 1, Len(s)), n - 1)

MSG_COMMAND == <<"~", "m", "s", "g", " ">>

REFRESH_COMMAND == <<"~", "r", "e", "f", "r", "e", "s", "h">>

---------------------------------------------------------------------------
(* The handlers' bodies. *)

\* _submit_fetch(feed): the job is handed to the executor
submit_fetch(feed, run, o) ==
    [ running |-> [run EXCEPT ![feed.url] = @ + 1],
      out |-> o \o << Printed("Fetching", <<feed.url>>),
                      Called("submit", <<feed.url>>) >> ]

\* "for feed in feeds: _submit_fetch(feed)"
RECURSIVE submit_all(_, _, _)
submit_all(fs, run, o) ==
    IF fs = <<>> THEN [ running |-> run, out |-> o ]
    ELSE LET r == submit_fetch(Head(fs), run, o)
         IN  submit_all(Tail(fs), r.running, r.out)

\* check_all_rss without the "if state.fetching" test
check_all_rss_unguarded(o) ==
    IF feeds = <<>>
    THEN [ started |-> FALSE, fetching |-> fetching, pending |-> pending,
           running |-> running, out |-> o ]
    ELSE LET r == submit_all(feeds, running, o)
         IN  [ started |-> TRUE, fetching |-> TRUE, pending |-> Len(feeds),
               running |-> r.running, out |-> r.out ]

\* check_all_rss that counts every feed and submits the first one only
check_all_rss_first_feed_only(o) ==
    IF fetching
    THEN [ started |-> FALSE, fetching |-> fetching, pending |-> pending,
           running |-> running,
           out |-> Append(o, Printed("Fetch already running, skipping", <<>>)) ]
    ELSE IF feeds = <<>>
    THEN [ started |-> FALSE, fetching |-> fetching, pending |-> pending,
           running |-> running, out |-> o ]
    ELSE LET r == submit_fetch(Head(feeds), running, o)
         IN  [ started |-> TRUE, fetching |-> TRUE, pending |-> Len(feeds),
               running |-> r.running, out |-> r.out ]

\* check_all_rss without the "if not feeds" test
check_all_rss_no_empty_test(o) ==
    IF fetching
    THEN [ started |-> FALSE, fetching |-> fetching, pending |-> pending,
           running |-> running,
           out |-> Append(o, Printed("Fetch already running, skipping", <<>>)) ]
    ELSE LET r == submit_all(feeds, running, o)
         IN  [ started |-> TRUE, fetching |-> TRUE, pending |-> Len(feeds),
               running |-> r.running, out |-> r.out ]

\* check_all_rss up to its trailing drain_queue call
check_all_rss(o) ==
    IF fetching
    THEN [ started |-> FALSE, fetching |-> fetching, pending |-> pending,
           running |-> running,
           out |-> Append(o, Printed("Fetch already running, skipping", <<>>)) ]
    ELSE IF feeds = <<>>
    THEN [ started |-> FALSE, fetching |-> fetching, pending |-> pending,
           running |-> running, out |-> o ]
    ELSE LET r == submit_all(feeds, running, o)
         IN  [ started |-> TRUE, fetching |-> TRUE, pending |-> Len(feeds),
               running |-> r.running, out |-> r.out ]

\* check_rss without the "if state.fetching" test
check_rss_unguarded(feed, o) ==
    LET r == submit_fetch(feed, running, o)
    IN  [ started |-> TRUE, fetching |-> TRUE, pending |-> 1,
          running |-> r.running, out |-> r.out ]

\* check_rss up to its trailing drain_queue call
check_rss(feed, o) ==
    IF fetching
    THEN [ started |-> FALSE, fetching |-> fetching, pending |-> pending,
           running |-> running, out |-> o ]
    ELSE LET r == submit_fetch(feed, running, o)
         IN  [ started |-> TRUE, fetching |-> TRUE, pending |-> 1,
               running |-> r.running, out |-> r.out ]

\* the poll interval given in minutes where seconds are expected
PollInterval_in_minutes == Config.refresh_minutes

\* "config.refresh_minutes * 60", the interval schedule_check hands to
\* execute_every for check_all_rss
PollInterval == Config.refresh_minutes * 60

\* on_disconnect up to and including the connection.connect call
ReconnectCalls ==
    << Printed("Disconnected from server, reconnecting in 60 seconds...", <<>>),
       Called("sleep", <<RECONNECT_SLEEP>>),
       Called("connect", << Config.server, Config.port, Config.nick,
                            Config.ircname \o <<" ", "(RSS feed)">> >>) >>

\* on_disconnect that reports a failed reconnect and schedules nothing
on_disconnect_no_retry(ok) ==
    IF ok
    THEN [ connected |-> TRUE, event |-> "welcome", schedule |-> <<>>,
           fails |-> 0, out |-> ReconnectCalls ]
    ELSE [ connected |-> FALSE, event |-> "none", schedule |-> <<>>,
           fails |-> fails + 1,
           out |-> Append(ReconnectCalls, Printed("Reconnect failed", <<"fail">>)) ]

\* on_disconnect that gives up after the first failed retry
on_disconnect_capped(ok) ==
    IF ok
    THEN [ connected |-> TRUE, event |-> "welcome", schedule |-> <<>>,
           fails |-> 0, out |-> ReconnectCalls ]
    ELSE [ connected |-> FALSE, event |-> "none",
           schedule |-> IF fails = 0
                        THEN << [ delay |-> RETRY_DELAY, callback |-> "on_disconnect" ] >>
                        ELSE <<>>,
           fails |-> fails + 1,
           out |-> ReconnectCalls \o
                   << Printed("Reconnect failed", <<"fail">>) >> \o
                   IF fails = 0
                   THEN << Called("execute_after", <<RETRY_DELAY, "on_disconnect">>) >>
                   ELSE <<>> ]

\* on_disconnect that reconnects first and sleeps afterwards
on_disconnect_sleeps_late(ok) ==
    LET o == << ReconnectCalls[1], ReconnectCalls[3], ReconnectCalls[2] >>
    IN  IF ok
        THEN [ connected |-> TRUE, event |-> "welcome", schedule |-> <<>>,
               fails |-> 0, out |-> o ]
        ELSE [ connected |-> FALSE, event |-> "none",
               schedule |-> << [ delay |-> RETRY_DELAY, callback |-> "on_disconnect" ] >>,
               fails |-> fails + 1,
               out |-> o \o << Printed("Reconnect failed", <<"fail">>),
                               Called("execute_after", <<RETRY_DELAY, "on_disconnect">>) >> ]

\* on_disconnect; ok says whether connection.connect returns or raises
\* ServerConnectionError
on_disconnect(ok) ==
    LET o == ReconnectCalls
    IN  IF ok
        THEN [ connected |-> TRUE, event |-> "welcome", schedule |-> <<>>,
               fails |-> 0, out |-> o ]
        ELSE [ connected |-> FALSE, event |-> "none",
               schedule |-> << [ delay |-> RETRY_DELAY, callback |-> "on_disconnect" ] >>,
               fails |-> fails + 1,
               out |-> o \o << Printed("Reconnect failed", <<"fail">>),
                               Called("execute_after", <<RETRY_DELAY, "on_disconnect">>) >> ]

Max(a, b) == IF a >= b THEN a ELSE b

Min(a, b) == IF a <= b THEN a ELSE b

\* a pool size without the cap of 8
max_workers_uncapped(n) == Max(1, IF n = 0 THEN 1 ELSE n)

\* "max_workers = max(1, min(8, len(feeds) or 1))", n being len(feeds)
max_workers(n) == Max(1, Min(8, IF n = 0 THEN 1 ELSE n))

\* executor_factory(max_workers): a pool of that size, no thread at work
ThreadPoolExecutor(workers) == [ max_workers |-> workers, threads |-> {} ]

---------------------------------------------------------------------------
(* The state machine.  It follows a job from its submission to its _done
   and leaves out which of the submitted jobs hold a thread of the pool. *)

Init ==
    /\ feeds \in FeedLists
    /\ seen = [u \in Urls |-> {}]
    /\ fetching = FALSE
    /\ pending = 0
    /\ results = <<>>
    /\ running = [u \in Urls |-> 0]
    /\ executor = ThreadPoolExecutor(max_workers(Len(feeds)))
    /\ connected = TRUE
    /\ event = "welcome"
    /\ everyDrain = 0
    /\ everyPoll = 0
    /\ delayed = <<>>
    /\ evpc = "idle"
    /\ handler = "run_instance"
    /\ out = <<>>
    /\ drops = 0
    /\ fails = 0

Step(name, o) ==
    /\ handler' = name
    /\ out' = o

\* the state a drain pass leaves; a privmsg that raised means the link is gone
ApplyDrain(r) ==
    /\ seen' = r.seen
    /\ pending' = r.pending
    /\ fetching' = r.fetching
    /\ results' = r.results
    /\ IF r.raised
       THEN connected' = FALSE /\ event' = "disconnect" /\ drops' = drops + 1
       ELSE UNCHANGED <<connected, event, drops>>

ApplyPoll(r) ==
    /\ fetching' = r.fetching
    /\ pending' = r.pending
    /\ running' = r.running

\* a _done that puts fetched lists only and lets a failure vanish
WorkerDone_drops_failures(u, payload) ==
    /\ running[u] > 0
    /\ running' = [running EXCEPT ![u] = @ - 1]
    /\ results' = IF payload.ok
                  THEN Append(results, [ feed |-> feeds[u], payload |-> payload ])
                  ELSE results
    /\ Step("_done", <<>>)
    /\ UNCHANGED <<executor, feeds, seen, fetching, pending, connected, event, everyDrain,
                   everyPoll, delayed, evpc, drops, fails>>

\* a _done that also does the drain loop's bookkeeping, on the worker thread
WorkerDone_counts(u, payload) ==
    /\ running[u] > 0
    /\ running' = [running EXCEPT ![u] = @ - 1]
    /\ results' = Append(results, [ feed |-> feeds[u], payload |-> payload ])
    /\ pending' = IF pending > 0 THEN pending - 1 ELSE pending
    /\ Step("_done", <<>>)
    /\ UNCHANGED <<executor, feeds, seen, fetching, connected, event, everyDrain,
                   everyPoll, delayed, evpc, drops, fails>>

\* a worker thread: the fetcher returns or raises, and _done puts the outcome
WorkerDone(u, payload) ==
    /\ running[u] > 0
    /\ running' = [running EXCEPT ![u] = @ - 1]
    /\ results' = Append(results, [ feed |-> feeds[u], payload |-> payload ])
    /\ Step("_done", <<>>)
    /\ UNCHANGED <<executor, feeds, seen, fetching, pending, connected, event, everyDrain,
                   everyPoll, delayed, evpc, drops, fails>>

\* the transport loses the link and queues the disconnect event
LinkLost ==
    /\ connected
    /\ drops < MaxDrops
    /\ connected' = FALSE
    /\ event' = "disconnect"
    /\ drops' = drops + 1
    /\ Step("link_lost", <<>>)
    /\ UNCHANGED <<executor, feeds, seen, fetching, pending, results, running, everyDrain,
                   everyPoll, delayed, evpc, fails>>

\* the "welcome" event
OnConnect ==
    /\ evpc = "idle" /\ connected /\ event = "welcome"
    /\ event' = "endofnames"
    /\ Step("on_connect", << Called("join", <<Config.channel>>) >>)
    /\ UNCHANGED <<executor, feeds, seen, fetching, pending, results, running, connected,
                   everyDrain, everyPoll, delayed, evpc, drops, fails>>

\* the "endofnames" event: on_joined -> schedule_check, up to the drain_queue
\* call inside check_all_rss
OnJoined ==
    /\ evpc = "idle" /\ connected /\ event = "endofnames"
    /\ event' = "none"
    /\ everyDrain' = everyDrain + 1
    /\ LET r == check_all_rss(<< Called("execute_every", <<DRAIN_INTERVAL, "drain_queue">>) >>)
           reg == Called("execute_every", <<PollInterval, "check_all_rss">>)
       IN  /\ ApplyPoll(r)
           /\ IF r.started
              THEN /\ evpc' = "schedule_check"
                   /\ everyPoll' = everyPoll
                   /\ Step("on_joined", r.out)
              ELSE /\ evpc' = "idle"
                   /\ everyPoll' = everyPoll + 1
                   /\ Step("on_joined", Append(r.out, reg))
    /\ UNCHANGED <<executor, feeds, seen, results, connected, delayed, drops, fails>>

\* the periodic check_all_rss
PollTick ==
    /\ evpc = "idle" /\ everyPoll > 0
    /\ LET r == check_all_rss(<<>>)
       IN  /\ ApplyPoll(r)
           /\ evpc' = IF r.started THEN "check_all_rss" ELSE "idle"
           /\ Step("poll_tick", r.out)
    /\ UNCHANGED <<executor, feeds, seen, results, connected, event, everyDrain, everyPoll,
                   delayed, drops, fails>>

\* check_rss(connection, feed), the single-feed entry point; nothing in
\* run_instance calls it, and its caller is taken to hold a joined connection
CheckRss(i) ==
    /\ evpc = "idle" /\ connected /\ everyDrain > 0
    /\ i \in DOMAIN feeds
    /\ LET r == check_rss(feeds[i], <<>>)
       IN  /\ ApplyPoll(r)
           /\ evpc' = IF r.started THEN "check_rss" ELSE "idle"
           /\ Step("check_rss", r.out)
    /\ UNCHANGED <<executor, feeds, seen, results, connected, event, everyDrain, everyPoll,
                   delayed, drops, fails>>

\* the drain_queue call that ends check_rss and check_all_rss, and what
\* schedule_check does after check_all_rss returns
ResumeDrain ==
    /\ evpc # "idle"
    /\ \E failAt \in FailChoices :
         \E r \in { drain_queue(failAt, <<>>) } :
         LET reg == Called("execute_every", <<PollInterval, "check_all_rss">>)
         IN  /\ ApplyDrain(r)
             /\ IF evpc = "schedule_check"
                THEN /\ everyPoll' = everyPoll + 1
                     /\ Step("resume", Append(r.out, reg))
                ELSE /\ everyPoll' = everyPoll
                     /\ Step("resume", r.out)
    /\ evpc' = "idle"
    /\ UNCHANGED <<executor, feeds, running, everyDrain, delayed, fails>>

\* the periodic drain_queue
DrainTick ==
    /\ evpc = "idle" /\ everyDrain > 0
    /\ \E failAt \in FailChoices :
         \E r \in { drain_queue(failAt, <<>>) } :
             ApplyDrain(r) /\ Step("drain_tick", r.out)
    /\ UNCHANGED <<executor, feeds, running, everyDrain, everyPoll, delayed, evpc, fails>>

ApplyReconnect(r) ==
    /\ connected' = r.connected
    /\ event' = r.event
    /\ fails' = r.fails

\* a disconnect handler that cancels the poll cycle in flight
OnDisconnect_cancels_cycle ==
    /\ evpc = "idle" /\ event = "disconnect"
    /\ \E ok \in BOOLEAN :
         /\ ok \/ fails < MaxFails
         /\ LET r == on_disconnect(ok)
            IN  /\ ApplyReconnect(r)
                /\ delayed' = delayed \o r.schedule
                /\ Step("on_disconnect", r.out)
    /\ fetching' = FALSE
    /\ pending' = 0
    /\ results' = <<>>
    /\ UNCHANGED <<executor, feeds, seen, running, everyDrain, everyPoll, evpc, drops>>

\* the "disconnect" event
OnDisconnect ==
    /\ evpc = "idle" /\ event = "disconnect"
    /\ \E ok \in BOOLEAN :
         /\ ok \/ fails < MaxFails
         /\ LET r == on_disconnect(ok)
            IN  /\ ApplyReconnect(r)
                /\ delayed' = delayed \o r.schedule
                /\ Step("on_disconnect", r.out)
    /\ UNCHANGED <<executor, feeds, seen, fetching, pending, results, running, everyDrain,
                   everyPoll, evpc, drops>>

\* the scheduler fires the execute_after entry: on_disconnect runs again
RetryFire ==
    /\ evpc = "idle" /\ delayed # <<>>
    /\ \E ok \in BOOLEAN :
         /\ ok \/ fails < MaxFails
         /\ LET r == on_disconnect(ok)
            IN  /\ ApplyReconnect(r)
                /\ delayed' = Tail(delayed) \o r.schedule
                /\ Step("retry", r.out)
    /\ UNCHANGED <<executor, feeds, seen, fetching, pending, results, running, everyDrain,
                   everyPoll, evpc, drops>>

\* the "msg" event with a "~msg target body" command
OnMsgRelay(message) ==
    /\ evpc = "idle" /\ connected
    /\ StartsWith(message, MSG_COMMAND)
    /\ LET parts == Split(message, 2)
       IN  Step("on_msg",
                IF Len(parts) = 3
                THEN << Privmsg(parts[2], parts[3], 0),
                        Privmsg("sender", <<"Sent to ">> \o parts[2] \o <<": ">> \o parts[3], 0) >>
                ELSE <<>>)
    /\ UNCHANGED <<executor, feeds, seen, fetching, pending, results, running, connected, event,
                   everyDrain, everyPoll, delayed, evpc, drops, fails>>

\* the "msg" event with a "~refresh" command
OnMsgRefresh(message) ==
    /\ evpc = "idle" /\ connected
    /\ ~StartsWith(message, MSG_COMMAND)
    /\ StartsWith(message, REFRESH_COMMAND)
    /\ LET r == check_all_rss(<<>>)
       IN  /\ ApplyPoll(r)
           /\ evpc' = IF r.started THEN "check_all_rss" ELSE "idle"
           /\ Step("on_msg:refresh", r.out)
    /\ UNCHANGED <<executor, feeds, seen, results, connected, event, everyDrain, everyPoll,
                   delayed, drops, fails>>

\* the "msg" event with no arguments or with any other text
OnMsgOther(message) ==
    /\ evpc = "idle" /\ connected
    /\ ~StartsWith(message, MSG_COMMAND)
    /\ ~StartsWith(message, REFRESH_COMMAND)
    /\ Step("on_msg", <<>>)
    /\ UNCHANGED <<executor, feeds, seen, fetching, pending, results, running, connected, event,
                   everyDrain, everyPoll, delayed, evpc, drops, fails>>

Next ==
    \/ \E u \in Urls, payload \in Payloads : WorkerDone(u, payload)
    \/ LinkLost
    \/ OnConnect
    \/ OnJoined
    \/ PollTick
    \/ \E i \in 1..NumFeeds : CheckRss(i)
    \/ ResumeDrain
    \/ DrainTick
    \/ OnDisconnect
    \/ RetryFire
    \/ \E message \in Messages \cup {<<>>} :
         OnMsgRelay(message) \/ OnMsgRefresh(message) \/ OnMsgOther(message)

Spec == Init /\ [][Next]_vars

\* Spec with the scheduling of the reactor's process_forever loop: an event
\* waiting to be dispatched is dispatched, a handler that has reached its
\* drain_queue call makes it, and the periodic drain trigger keeps firing
FairSpec ==
    /\ Spec
    /\ WF_vars(OnConnect)
    /\ WF_vars(OnJoined)
    /\ WF_vars(ResumeDrain)
    /\ WF_vars(DrainTick)

---------------------------------------------------------------------------
(* format_message on its own: the calls _handle_feed_items makes when       *)
(* include_description is set, over titles long enough to reach the        *)
(* truncation branches.                                                    *)

\* a title of n characters
Filler(n) == [ i \in 1..n |-> "t" ]

\* descriptions: every text of up to MaxDesc characters over a blank and a
\* letter; the empty one also stands for None
Descriptions == SeqsUpTo({" ", "d"}, MaxDesc)

FormatPrefixes == { <<>>, Prefix(Feed(1)) }

FormatLinks == { <<"x">>, <<"y", " ">> }

\* the room a title of n characters leaves for a description
Room(n, link, prefix) ==
    IRC_SAFE_MESSAGE_LEN - Len(SEPARATOR)
      - (Len(prefix) + Len(BOLD) + n + Len(BOLD) + Len(SEPARATOR) + Len(link))

\* titles: a short one, those that leave between -1 and MaxRoom characters
\* of room, and one that makes the base longer than IRC_SAFE_MESSAGE_LEN
FormatTitles(link, prefix) ==
    { Filler(n) : n \in { m \in 1..(IRC_SAFE_MESSAGE_LEN + 1) :
                            \/ m = 1
                            \/ Room(m, link, prefix) \in (-1)..MaxRoom
                            \/ Room(m, link, prefix) = 0 - Len(SEPARATOR) - 1 } }

\* the calls to make: format_message(title, link, prefix, description)
FormatCalls ==
    UNION { { Called("format_message", <<title, link, prefix, description>>) :
                title \in FormatTitles(link, prefix), description \in Descriptions } :
            link \in FormatLinks, prefix \in FormatPrefixes }

\* no feed, nothing in flight, and one call of format_message about to be made
FormatInit ==
    /\ feeds = <<>>
    /\ seen = [u \in Urls |-> {}]
    /\ fetching = FALSE
    /\ pending = 0
    /\ results = <<>>
    /\ running = [u \in Urls |-> 0]
    /\ connected = TRUE
    /\ event = "none"
    /\ everyDrain = 0
    /\ everyPoll = 0
    /\ delayed = <<>>
    /\ evpc = "idle"
    /\ executor = ThreadPoolExecutor(max_workers(Len(feeds)))
    /\ handler = "_handle_feed_items"
    /\ out \in { <<c>> : c \in FormatCalls }
    /\ drops = 0
    /\ fails = 0

\* the call is made: its result is recorded after its arguments
FormatCall ==
    /\ handler = "_handle_feed_items"
    /\ LET a == out[1].arg
       IN  Step("format_message",
                Append(out, Called("return", <<format_message(a[1], a[2], a[3], a[4])>>)))
    /\ UNCHANGED <<executor, feeds, seen, fetching, pending, results, running, connected, event,
                   everyDrain, everyPoll, delayed, evpc, drops, fails>>

FormatNext == FormatCall

FormatSpec == FormatInit /\ [][FormatNext]_vars

---------------------------------------------------------------------------
(* The worker pool on its own: run_instance with feed lists long enough to
   pass the pool's cap, the connection staying up, and every job followed
   through the pool: submitted, taken by a free thread, done. *)

PoolFeedLists == { [i \in 1..n |-> Feed(i)] : n \in 0..MaxPoolFeeds }

\* what a fetch gives here: no entries, or an exception
PoolPayloads ==
    { [ ok |-> TRUE, items |-> <<>> ], [ ok |-> FALSE, error |-> "boom" ] }

PoolInit ==
    /\ feeds \in PoolFeedLists
    /\ seen = [u \in 1..MaxPoolFeeds |-> {}]
    /\ fetching = FALSE
    /\ pending = 0
    /\ results = <<>>
    /\ running = [u \in 1..MaxPoolFeeds |-> 0]
    /\ executor = ThreadPoolExecutor(max_workers(Len(feeds)))
    /\ connected = TRUE
    /\ event = "welcome"
    /\ everyDrain = 0
    /\ everyPoll = 0
    /\ delayed = <<>>
    /\ evpc = "idle"
    /\ handler = "run_instance"
    /\ out = <<>>
    /\ drops = 0
    /\ fails = 0

\* the submitted jobs that no thread has taken yet
Waiting == { u \in DOMAIN feeds : running[u] > 0 /\ u \notin executor.threads }

\* a thread of the pool takes the job that has waited longest; the pool
\* has no more than max_workers threads
PoolStart ==
    /\ Waiting # {}
    /\ Cardinality(executor.threads) < executor.max_workers
    /\ LET u == CHOOSE w \in Waiting : \A v \in Waiting : w <= v
       IN  /\ executor' = [executor EXCEPT !.threads = @ \cup {u}]
           /\ Step("fetcher", << Called("fetcher", <<feeds[u].url>>) >>)
    /\ UNCHANGED <<feeds, seen, fetching, pending, results, running, connected,
                   event, everyDrain, everyPoll, delayed, evpc, drops, fails>>

\* the fetcher of a job returns or raises, _done puts the outcome, and the
\* thread is free again
PoolDone(u, payload) ==
    /\ u \in executor.threads
    /\ Len(results) < MaxQueued
    /\ executor' = [executor EXCEPT !.threads = @ \ {u}]
    /\ running' = [running EXCEPT ![u] = @ - 1]
    /\ results' = Append(results, [ feed |-> feeds[u], payload |-> payload ])
    /\ Step("_done", <<>>)
    /\ UNCHANGED <<feeds, seen, fetching, pending, connected, event, everyDrain,
                   everyPoll, delayed, evpc, drops, fails>>

PoolNext ==
    \/ OnConnect
    \/ OnJoined
    \/ PollTick
    \/ ResumeDrain
    \/ DrainTick
    \/ PoolStart
    \/ \E u \in DOMAIN feeds : \E payload \in PoolPayloads : PoolDone(u, payload)

PoolSpec == PoolInit /\ [][PoolNext]_vars

---------------------------------------------------------------------------
(* Vocabulary of the properties. *)

\* the steps that run drain_queue
DrainHandlers == {"drain_tick", "resume"}

\* the steps that run check_all_rss
PollHandlers == {"poll_tick", "on_msg:refresh", "on_joined"}

\* the steps that run on_disconnect
ReconnectHandlers == {"on_disconnect", "retry"}

IsPrint(e, what) == e.op = "print" /\ e.what = what

IsCall(e, op) == e.op = op

Prints(o, what) == Cardinality({ i \in DOMAIN o : IsPrint(o[i], what) })

Calls(o, op) == Cardinality({ i \in DOMAIN o : IsCall(o[i], op) })

\* the privmsg calls in o made for feed u, in order
SentFor(o, u) ==
    SelectSeq(o, LAMBDA e : e.op = "privmsg" /\ e.feed = u)

IsPrefix(s, t) ==
    Len(s) <= Len(t) /\ s = SubSeq(t, 1, Len(s))

\* fetch jobs whose outcome has not been popped yet
Outstanding ==
    Len(results) + Cardinality({ u \in Urls : running[u] > 0 })

\* an entry's identity: its stripped title
Identity(item) == Strip(GetOrEmpty(item, "title"))

---------------------------------------------------------------------------
(* The claims. *)

\* C1: once every fetch job of a poll cycle has had its outcome popped by
\* the drain loop (no job is running and the result queue is empty),
\* pending is 0 and fetching is false, so that check_all_rss can start the
\* next cycle.  The code breaks this: a privmsg that raises
\* ServerNotConnectedError makes drain_queue return after the pop and before
\* the decrement, so pending stays above 0 and fetching stays true for good.
C1_AllPoppedClearsPollState ==
    Outstanding = 0 => (pending = 0 /\ fetching = FALSE)

\* C2: a check_all_rss call made while fetching is true, whichever trigger
\* makes it (the periodic timer, the join, "~refresh"), submits no fetch
\* job, prints "Fetch already running, skipping" exactly once and leaves
\* fetching, pending, the seen sets and the result queue as they were.
C2_PollWhileFetchingSkips ==
    [][ (fetching /\ handler' \in PollHandlers) =>
          /\ Prints(out', "Fetch already running, skipping") = 1
          /\ Prints(out', "Fetching") = 0
          /\ Calls(out', "submit") = 0
          /\ running' = running
          /\ fetching' = fetching
          /\ pending' = pending
          /\ seen' = seen
          /\ results' = results ]_vars

\* C2 happens: the join handler ran while a cycle was in flight and skipped
C2_Witness ==
    /\ handler = "on_joined"
    /\ fetching
    /\ Outstanding > 0
    /\ Prints(out, "Fetch already running, skipping") = 1

\* C3: when an outcome is drained for a feed whose seen set is empty, no
\* message is sent for that feed, and afterwards the feed's seen set holds
\* exactly the non-empty stripped titles of the fetched entries.
C3_FirstRunSuppressed ==
    [][ handler' \in DrainHandlers =>
          \A i \in 1..(Len(results) - Len(results')) :
             LET u == results[i].feed.url
                 payload == results[i].payload
             IN  ( /\ payload.ok
                   /\ seen[u] = {}
                   /\ \A j \in 1..(Len(results) - Len(results')) :
                         j # i => results[j].feed.url # u )
                 => /\ SentFor(out', u) = <<>>
                    /\ seen'[u] = { Identity(payload.items[j]) :
                                      j \in DOMAIN payload.items } \ { <<>> } ]_vars

\* C3 happens: a drain pass handled the first outcome of feed 1, recorded
\* both titles and sent nothing
C3_Witness ==
    /\ handler \in DrainHandlers
    /\ \E i \in DOMAIN out : IsCall(out[i], "delta_items") /\ out[i].arg = <<1, TRUE>>
    /\ seen[1] = { <<"a">>, <<"b">> }
    /\ \A i \in DOMAIN out : out[i].op # "privmsg"

\* the outcomes a step took off the result queue
Popped == Len(results) - Len(results')

\* the url of the i-th popped outcome is that of no other popped outcome
OnlyOutcomeOf(i) ==
    \A j \in 1..Popped : j # i => results[j].feed.url # results[i].feed.url

\* a drain pass in which a privmsg raised ServerNotConnectedError
SendRaised == connected /\ ~connected'

\* Is entry i of items new against the set s?  With firstOnly, an entry
\* whose identity an earlier entry of the list already has is not.
NewAt(s, items, i, firstOnly) ==
    /\ Identity(items[i]) # <<>>
    /\ Identity(items[i]) \notin s
    /\ firstOnly => \A j \in 1..(i - 1) : Identity(items[j]) # Identity(items[i])

RECURSIVE PickNew(_, _, _, _)
PickNew(s, items, i, firstOnly) ==
    IF i > Len(items) THEN <<>>
    ELSE (IF NewAt(s, items, i, firstOnly) THEN <<items[i]>> ELSE <<>>)
         \o PickNew(s, items, i + 1, firstOnly)

\* the message announcing an entry of a feed
MessageFor(feed, item) ==
    Privmsg(Config.channel,
            format_message(Identity(item), Strip(GetOrEmpty(item, "link")),
                           Prefix(feed), <<>>),
            feed.url)

\* the messages for the new entries of items, last entry first
Announcements(feed, s, items, firstOnly) ==
    LET new == Reverse(PickNew(s, items, 1, firstOnly))
    IN  [ k \in 1..Len(new) |-> MessageFor(feed, new[k]) ]

C5_SendFailureKeepsQueue ==
    [][ (handler' \in DrainHandlers /\ SendRaised) =>
          /\ Prints(out', "Lost connection while sending") = 1
          /\ \A i, j \in DOMAIN out' :
                (IsPrint(out'[i], "Lost connection while sending") /\ i < j)
                => out'[j].op = "execute_every"
          /\ Popped >= 1
          /\ Popped = Calls(out', "delta_items") + Prints(out', "Error fetching")
          /\ results[Popped].payload.ok
          /\ results' = SubSeq(results, Popped + 1, Len(results)) ]_vars

\* C5 happens: a pass was cut short by a send failure and an outcome is
\* still queued
C5_Witness ==
    /\ handler \in DrainHandlers
    /\ ~connected
    /\ Prints(out, "Lost connection while sending") = 1
    /\ results # <<>>

\* C6: drain_queue called while the connection is not established pops no
\* outcome, sends no message, prints nothing and leaves the seen sets,
\* pending and fetching as they were.
C6_DrainWhileDisconnectedIsNoOp ==
    [][ (handler' \in DrainHandlers /\ ~connected) =>
          /\ results' = results
          /\ seen' = seen
          /\ pending' = pending
          /\ fetching' = fetching
          /\ \A i \in DOMAIN out' : out'[i].op = "execute_every" ]_vars

\* C6 happens: the drain timer fired while disconnected with an outcome
\* queued, and left it there
C6_Witness ==
    /\ handler = "drain_tick"
    /\ ~connected
    /\ results # <<>>
    /\ out = <<>>

\* C7: a popped failure outcome is reported exactly once with its feed's
\* url, sends no message, leaves that feed's seen set alone, submits no new
\* fetch job, and counts as finished: pending goes down by one for it.
C7_FetchFailureReportedAndCounted ==
    [][ handler' \in DrainHandlers =>
          LET failed == { i \in 1..Popped : ~results[i].payload.ok }
          IN  /\ \A i \in failed :
                   LET u == results[i].feed.url
                   IN  OnlyOutcomeOf(i) =>
                         /\ Cardinality({ j \in DOMAIN out' :
                               /\ IsPrint(out'[j], "Error fetching")
                               /\ out'[j].arg[1] = u }) = 1
                         /\ SentFor(out', u) = <<>>
                         /\ seen'[u] = seen[u]
              /\ failed # {} =>
                   /\ running' = running
                   /\ Calls(out', "submit") = 0
                   /\ pending - pending' >= Cardinality(failed)
              /\ (failed = 1..Popped) => pending' = pending - Popped ]_vars

\* C7 happens: of the two jobs of a cycle one failed, was reported and
\* counted; the other is still outstanding
C7_Witness ==
    /\ handler \in DrainHandlers
    /\ Prints(out, "Error fetching") = 1
    /\ pending = 1
    /\ Outstanding = 1
    /\ fetching

\* C8: when on_disconnect runs and its reconnect attempt fails, it prints
\* "Reconnect failed" exactly once and schedules exactly one one-shot run of
\* on_disconnect, 60 time units later; that entry is then the only one the
\* scheduler holds.
C8_FailedReconnectSchedulesOneRetry ==
    [][ (handler' \in ReconnectHandlers /\ ~connected') =>
          /\ Prints(out', "Reconnect failed") = 1
          /\ Calls(out', "execute_after") = 1
          /\ \A i \in DOMAIN out' :
                IsCall(out'[i], "execute_after") => out'[i].arg = <<60, "on_disconnect">>
          /\ delayed' = << [ delay |-> 60, callback |-> "on_disconnect" ] >> ]_vars

\* C8 happens: the disconnect event was handled, the reconnect failed and
\* one retry is scheduled
C8_Witness ==
    /\ handler = "on_disconnect"
    /\ ~connected
    /\ Prints(out, "Reconnect failed") = 1
    /\ Len(delayed) = 1

\* C9: there is no retry cap.  After any number of consecutive failed
\* reconnect attempts the connection is down and a retry of on_disconnect
\* is pending; and once an attempt has succeeded the connection is up, the
\* count of failures is back at 0 and no retry is pending.
C9_RetryPendingUntilReconnected ==
    /\ fails > 0 =>
         /\ ~connected
         /\ Len(delayed) = 1
         /\ delayed[1].callback = "on_disconnect"
    /\ connected => (delayed = <<>> /\ fails = 0)

\* C9 happens: the retry of on_disconnect failed as well and scheduled the
\* next retry
C9_Witness ==
    /\ handler = "retry"
    /\ fails = 2
    /\ ~connected
    /\ Len(delayed) = 1

\* C10: every run of on_disconnect sleeps 60 exactly once, then makes
\* exactly one connect call, with the configured server, port and nick and
\* the configured ircname followed by " (RSS feed)"; when that call succeeds
\* no retry is scheduled.
C10_CooldownThenOneReconnect ==
    [][ handler' \in ReconnectHandlers =>
          /\ Calls(out', "sleep") = 1
          /\ Calls(out', "connect") = 1
          /\ \A i, j \in DOMAIN out' :
                (IsCall(out'[i], "sleep") /\ IsCall(out'[j], "connect")) =>
                   /\ i < j
                   /\ out'[i].arg = <<60>>
                   /\ out'[j].arg = << Config.server, Config.port, Config.nick,
                                       Config.ircname \o <<" ", "(RSS feed)">> >>
          /\ connected' => (Calls(out', "execute_after") = 0 /\ delayed' = <<>>) ]_vars

\* C10 happens: a scheduled retry slept, reconnected and left no retry
\* behind
C10_Witness ==
    /\ handler = "retry"
    /\ connected
    /\ Calls(out, "sleep") = 1
    /\ Calls(out, "connect") = 1
    /\ delayed = <<>>

\* the submit calls in o made for feed url u
SubmitsFor(o, u) ==
    Cardinality({ i \in DOMAIN o : IsCall(o[i], "submit") /\ o[i].arg = <<u>> })

\* the urls of the configured feeds
FeedUrls == { feeds[i].url : i \in DOMAIN feeds }

\* C11: check_all_rss called with fetching false and a non-empty feed list
\* sets fetching to true and pending to the number of feeds and submits
\* exactly one fetch job per configured feed; it does not wait for a result:
\* when it goes on to its drain_queue call every job it submitted may still
\* be running, and nothing was put on or taken from the result queue.
C11_PollAllStartsOneJobPerFeed ==
    [][ (~fetching /\ feeds # <<>> /\ handler' \in PollHandlers) =>
          /\ fetching'
          /\ pending' = Len(feeds)
          /\ Calls(out', "submit") = Len(feeds)
          /\ \A u \in Urls :
                /\ SubmitsFor(out', u) = IF u \in FeedUrls THEN 1 ELSE 0
                /\ running'[u] = running[u] + (IF u \in FeedUrls THEN 1 ELSE 0)
          /\ \A u \in FeedUrls : running'[u] > 0
          /\ results' = results
          /\ seen' = seen
          /\ evpc' # "idle" ]_vars

\* C11 happens: check_all_rss started a cycle over two feeds and both jobs
\* are still running when it reaches its drain_queue call
C11_Witness ==
    /\ handler \in PollHandlers
    /\ evpc # "idle"
    /\ Len(feeds) = 2
    /\ fetching /\ pending = 2
    /\ running[1] = 1 /\ running[2] = 1
    /\ Calls(out, "submit") = 2

C13_EmptyFeedListReturnsAtOnce ==
    [][ (feeds = <<>> /\ handler' \in PollHandlers /\ ~fetching) =>
          /\ fetching' = FALSE
          /\ pending' = 0
          /\ running' = running
          /\ Calls(out', "submit") = 0
          /\ Calls(out', "print") = 0
          /\ evpc' = "idle"
          /\ UNCHANGED <<seen, results>> ]_vars

\* C13 happens: the periodic check_all_rss ran with no feed configured
C13_Witness ==
    /\ handler = "poll_tick"
    /\ feeds = <<>>
    /\ ~fetching /\ pending = 0
    /\ out = <<>>

\* the execute_every registrations in o of the given interval and callback
Registrations(o, interval, callback) ==
    Cardinality({ i \in DOMAIN o :
        IsCall(o[i], "execute_every") /\ o[i].arg = <<interval, callback>> })

\* what a join registers with the scheduler, in the join step itself and,
\* when check_all_rss started a cycle, in the step that ends schedule_check:
\* one drain trigger of interval 1 before check_all_rss runs, and one
\* check_all_rss trigger of refresh_minutes * 60 seconds after it returns
JoinRegistersTimers ==
    /\ handler' = "on_joined" =>
          /\ out' # <<>>
          /\ out'[1] = Called("execute_every", <<1, "drain_queue">>)
          /\ Calls(out', "execute_every") = 1 + (IF evpc' = "idle" THEN 1 ELSE 0)
          /\ everyDrain' = everyDrain + 1
          /\ evpc' \in {"idle", "schedule_check"}
          /\ evpc' = "idle" =>
                /\ out'[Len(out')]
                     = Called("execute_every", <<Config.refresh_minutes * 60, "check_all_rss">>)
                /\ everyPoll' = everyPoll + 1
          /\ evpc' = "schedule_check" => everyPoll' = everyPoll
    /\ (evpc = "schedule_check" /\ handler' \in {"_done", "link_lost"}) =>
          evpc' = "schedule_check"
    /\ (evpc = "schedule_check" /\ handler' \notin {"_done", "link_lost"}) =>
          /\ handler' = "resume"
          /\ evpc' = "idle"
          /\ Calls(out', "execute_every") = 1
          /\ out'[Len(out')]
               = Called("execute_every", <<Config.refresh_minutes * 60, "check_all_rss">>)
          /\ everyPoll' = everyPoll + 1
          /\ everyDrain' = everyDrain

\* C14 as stated: on a join of the channel a poll cycle is started at once
\* (a fetch job is submitted for every configured feed), the periodic
\* check_all_rss trigger is registered with interval refresh_minutes * 60
\* and the periodic drain_queue trigger with interval 1.
C14_JoinStartsCycle ==
    [][ /\ JoinRegistersTimers
        /\ (handler' = "on_joined" /\ feeds # <<>>) =>
              /\ Calls(out', "submit") = Len(feeds)
              /\ fetching' /\ pending' = Len(feeds) ]_vars

\* C14 as amended: on a join of the channel check_all_rss is called once,
\* at once: it starts a poll cycle when none is in flight and a feed is
\* configured, and starts none otherwise (with a cycle in flight it prints
\* "Fetch already running, skipping" and changes nothing); the periodic
\* check_all_rss trigger is registered with interval refresh_minutes * 60
\* and the periodic drain_queue trigger with interval 1.
C14_JoinPollsOnceAndRegistersTimers ==
    [][ /\ JoinRegistersTimers
        /\ (handler' = "on_joined" /\ ~fetching /\ feeds # <<>>) =>
              /\ Calls(out', "submit") = Len(feeds)
              /\ \A u \in FeedUrls : SubmitsFor(out', u) = 1
              /\ fetching' /\ pending' = Len(feeds)
              /\ evpc' = "schedule_check"
        /\ (handler' = "on_joined" /\ (fetching \/ feeds = <<>>)) =>
              /\ Calls(out', "submit") = 0
              /\ Prints(out', "Fetch already running, skipping")
                   = (IF fetching THEN 1 ELSE 0)
              /\ evpc' = "idle"
              /\ UNCHANGED <<fetching, pending, running>> ]_vars

\* C14 happens: the join started a cycle over two feeds, and schedule_check
\* has registered the check_all_rss trigger after it; one trigger of each
\* kind is registered
C14_Witness ==
    /\ handler = "resume"
    /\ Registrations(out, 300, "check_all_rss") = 1
    /\ everyDrain = 1 /\ everyPoll = 1
    /\ Len(feeds) = 2
    /\ fetching

\* C15: the periodic triggers are registered on the first join only: in
\* every reachable state, whatever disconnects, reconnects and joins came
\* before, the scheduler holds at most one periodic check_all_rss trigger
\* and at most one periodic drain_queue trigger.  The code breaks this:
\* on_joined calls schedule_check on every "endofnames" event, and
\* schedule_check registers both triggers each time.
C15_OneTriggerOfEachKind ==
    everyDrain <= 1 /\ everyPoll <= 1

\* C16: drain_queue is idempotent.  A drain_queue call that directly
\* follows another one, and any drain_queue call that finds the result
\* queue empty, pops nothing, sends nothing, prints nothing and leaves the
\* seen sets, pending, fetching and the connection as they were.
C16_DrainTwiceIsDrainOnce ==
    [][ (handler' \in DrainHandlers /\ (handler \in DrainHandlers \/ results = <<>>)) =>
          /\ results' = results
          /\ seen' = seen
          /\ pending' = pending
          /\ fetching' = fetching
          /\ connected' = connected
          /\ \A i \in DOMAIN out' : out'[i].op = "execute_every" ]_vars

\* C16 happens: with a cycle in flight and its jobs still running, the
\* drain timer fired on an established connection, found the queue empty
\* and did nothing
C16_Witness ==
    /\ handler = "drain_tick"
    /\ connected
    /\ out = <<>>
    /\ results = <<>>
    /\ fetching /\ pending = 2
    /\ seen[1] # {}

---------------------------------------------------------------------------
(* format_message: the call recorded in out, under FormatSpec. *)

\* the recorded call has returned
Formatted == handler = "format_message"

ArgTitle == out[1].arg[1]

ArgLink == out[1].arg[2]

ArgPrefix == out[1].arg[3]

ArgDescription == out[1].arg[4]

Returned == out[2].arg[1]

\* the base form: prefix, the title in bold, the separator, the link
BaseForm == ArgPrefix \o <<"^B">> \o ArgTitle \o <<"^B">> \o SEPARATOR \o ArgLink

\* remaining = MAX_SAFE_LEN - len(base) - len(separator)
Budget == 400 - Len(BaseForm) - Len(SEPARATOR)

\* what the result holds after the base form and a separator
Appended ==
    SubSeq(Returned, Len(BaseForm) + Len(SEPARATOR) + 1, Len(Returned))

Ellipsis == <<".", ".", ".">>

\* C17 as stated: a description longer than the budget is cut to its
\* first budget - 3 characters followed by "...", which is exactly budget
\* characters, when the budget is 3 or more, and to its first budget
\* characters when the budget is 1 or 2.
C17_TruncatedToExactlyBudget ==
    Formatted =>
      /\ (Len(ArgDescription) > Budget /\ Budget >= 3) =>
            /\ Returned = BaseForm \o SEPARATOR
                             \o SubSeq(ArgDescription, 1, Budget - 3) \o Ellipsis
            /\ Len(Appended) = Budget
      /\ (Len(ArgDescription) > Budget /\ Budget > 0 /\ Budget < 3) =>
            Returned = BaseForm \o SEPARATOR \o SubSeq(ArgDescription, 1, Budget)

\* C17 as amended: the description is stripped of surrounding blanks
\* first.  When the stripped text is longer than the budget and the budget
\* is 3 or more, the text appended is its first budget - 3 characters with
\* trailing blanks removed, followed by "...": at most budget characters,
\* and exactly budget when the cut does not end in a blank.  When the
\* budget is 1 or 2 the text appended is the first budget characters of
\* the stripped text.
C17_StrippedThenTruncatedWithinBudget ==
    Formatted =>
      LET d == Strip(ArgDescription)
      IN  /\ (Len(d) > Budget /\ Budget >= 3) =>
                /\ Returned = BaseForm \o SEPARATOR
                                 \o RStrip(SubSeq(d, 1, Budget - 3)) \o Ellipsis
                /\ Len(Appended) <= Budget
                /\ (Budget = 3 \/ d[Budget - 3] # " ") => Len(Appended) = Budget
          /\ (Len(d) > Budget /\ Budget > 0 /\ Budget < 3) =>
                Returned = BaseForm \o SEPARATOR \o SubSeq(d, 1, Budget)

\* C17 happens: with room for 5 characters a stripped description of 6,
\* whose second character is a blank, was cut to 4 characters
C17_Witness ==
    /\ Formatted
    /\ Budget = 5
    /\ ArgDescription = Strip(ArgDescription)
    /\ Len(ArgDescription) = 6
    /\ ArgDescription[2] = " "
    /\ Appended = <<"d">> \o Ellipsis

\* C18: the result of format_message is never longer than the larger of
\* the base form and IRC_SAFE_MESSAGE_LEN (400); a result that holds more
\* than the base form is at most 400 characters long.
C18_LengthBound ==
    Formatted =>
      /\ Len(Returned) <= (IF Len(BaseForm) > 400 THEN Len(BaseForm) ELSE 400)
      /\ Len(Returned) > Len(BaseForm) => Len(Returned) <= 400

\* C18 happens: a description too long for the room left was appended cut
\* and the result is 400 characters long
C18_Witness ==
    /\ Formatted
    /\ Len(Strip(ArgDescription)) > Budget
    /\ Len(Returned) > Len(BaseForm)
    /\ Len(Returned) = 400

\* C19: with no room left for a description (budget of 0 or less), and
\* with no description or an empty one, format_message returns the base
\* form, which ends with the link as given.
C19_NoRoomOrNoDescriptionGivesBase ==
    Formatted =>
      ((Budget <= 0 \/ ArgDescription = <<>>) =>
          /\ Returned = BaseForm
          /\ SubSeq(Returned, Len(Returned) - Len(ArgLink) + 1, Len(Returned)) = ArgLink)

\* C19 happens: a description was given, the base form left exactly no
\* room, and the base form came back
C19_Witness ==
    /\ Formatted
    /\ ArgDescription # <<>>
    /\ Strip(ArgDescription) # <<>>
    /\ Budget = 0
    /\ Returned = BaseForm

---------------------------------------------------------------------------

\* a message for the entry of identity id of feed u is among the effects o
SentIdentity(o, u, id) ==
    \E i \in DOMAIN o :
       /\ o[i].op = "privmsg"
       /\ o[i].feed = u
       /\ StartsWith(o[i].text, Prefix(Feed(u)) \o BOLD \o id \o BOLD \o SEPARATOR)

\* C20: seen-set provenance, step by step: an identity enters the seen set
\* of a feed only in a drain pass, and either that pass found the feed's
\* seen set empty (first poll, nothing delivered) or the pass sent a
\* message for the identity; so every identity of a seen set was recorded
\* by a first poll or has been sent.  The code breaks this: delta_items
\* records every new identity before the first privmsg, and a privmsg that
\* raises ServerNotConnectedError leaves the identities not yet sent in the
\* seen set.
C20_SeenOnlyByFirstPollOrSent ==
    [][ \A u \in Urls : \A id \in seen'[u] \ seen[u] :
          /\ handler' \in DrainHandlers
          /\ seen[u] = {} \/ SentIdentity(out', u, id) ]_vars

---------------------------------------------------------------------------

\* the reactor thread is between two callbacks
BetweenCallbacks == evpc = "idle"

RECURSIVE JobsRunningUpTo(_)
JobsRunningUpTo(n) ==
    IF n = 0 THEN 0 ELSE running[n] + JobsRunningUpTo(n - 1)

\* submitted jobs whose _done has not put an outcome yet
JobsRunning == JobsRunningUpTo(NumFeeds)

\* the outcomes queued for feed url u
QueuedFor(u) == Cardinality({ i \in DOMAIN results : results[i].feed.url = u })

\* C21: between event-loop callbacks pending is the number of submitted
\* fetch jobs whose outcome the drain loop has not popped yet: the jobs
\* still running plus the outcomes still queued.  The code breaks this: an
\* outcome popped in a pass whose privmsg raises ServerNotConnectedError is
\* never counted, and pending stays one above that number.
C21_PendingCountsUnpoppedJobs ==
    BetweenCallbacks => pending = JobsRunning + Len(results)

\* C22: pending = 0 implies that fetching is false, between callbacks and
\* inside them.
C22_ZeroPendingMeansNotFetching ==
    pending = 0 => ~fetching

\* C22 happens: a drain pass popped the last outcome of a cycle and
\* brought pending to 0 and fetching to false
C22_Witness ==
    /\ BetweenCallbacks
    /\ handler \in DrainHandlers
    /\ Calls(out, "delta_items") + Prints(out, "Error fetching") >= 1
    /\ Prints(out, "Lost connection while sending") = 0
    /\ pending = 0 /\ ~fetching

\* C23: fetching is true whenever a submitted job is still running or has
\* its outcome queued; so no feed has two jobs outstanding (the jobs of two
\* cycles never overlap) and no more jobs are outstanding than there are
\* feeds.
C23_FetchingWhileJobsOutstanding ==
    /\ JobsRunning + Len(results) > 0 => fetching
    /\ \A u \in Urls : running[u] + QueuedFor(u) <= 1
    /\ JobsRunning + Len(results) <= Len(feeds)

\* C23 happens: of a cycle over two feeds one job is still running and the
\* outcome of the other is queued
C23_Witness ==
    /\ Len(feeds) = 2
    /\ fetching
    /\ running[1] = 1
    /\ QueuedFor(2) = 1

\* a step that starts a poll cycle
StartsCycle ==
    /\ handler' \in PollHandlers \cup {"check_rss"}
    /\ ~fetching
    /\ Calls(out', "submit") > 0

\* C24: pending changes in two ways only.  A drain pass lowers it by
\* exactly one for every outcome it pops, never below 0, and the start of a
\* poll cycle raises it from 0 to the number of jobs submitted; every other
\* step leaves it as it was.  The code breaks the first half: the outcome
\* popped in a pass whose privmsg raises is not counted.
C24_PendingFrame ==
    [][ /\ handler' \in DrainHandlers =>
              (pending' = pending - Popped /\ pending' >= 0)
        /\ StartsCycle =>
              (pending = 0 /\ pending' = Calls(out', "submit"))
        /\ (handler' \notin DrainHandlers /\ ~StartsCycle) =>
              pending' = pending ]_vars

\* C25: every submitted fetch job puts exactly one outcome on the result
\* queue.  A _done step ends one running job and appends one entry, which
\* carries that job's own feed and the fetched list or the failure; no
\* other step appends to the queue or ends a job, so no outcome is
\* enqueued twice or dropped, in whatever order the workers complete.
C25_OneOutcomePerJob ==
    [][ /\ handler' = "_done" =>
              \E u \in FeedUrls :
                 /\ running[u] > 0
                 /\ running' = [running EXCEPT ![u] = @ - 1]
                 /\ Len(results') = Len(results) + 1
                 /\ SubSeq(results', 1, Len(results)) = results
                 /\ results'[Len(results')].feed = feeds[u]
                 /\ results'[Len(results')].payload \in Payloads
        /\ handler' # "_done" =>
              /\ \A u \in Urls : running'[u] >= running[u]
              /\ Len(results') <= Len(results)
              /\ results' = SubSeq(results, Popped + 1, Len(results)) ]_vars

\* C25 happens: the job of the second feed completed before that of the
\* first, which then failed; each has its one entry, with its own feed
C25_Witness ==
    /\ handler = "_done"
    /\ Len(results) = 2
    /\ results[1].feed = Feed(2)
    /\ results[2].feed = Feed(1)
    /\ ~results[2].payload.ok
    /\ JobsRunning = 0

\* C26: a worker-thread step changes the result queue (and ends its job)
\* and nothing else: the seen sets, fetching, pending, the connection and
\* the scheduler are as before.  The seen sets, fetching and pending change
\* only in callbacks of the event-loop thread.
C26_WorkersTouchOnlyTheQueue ==
    [][ /\ handler' = "_done" =>
              UNCHANGED <<executor, feeds, seen, fetching, pending, connected, event,
                          everyDrain, everyPoll, delayed, evpc>>
        /\ seen' # seen => handler' \in DrainHandlers
        /\ (fetching' # fetching \/ pending' # pending) =>
              handler' \in DrainHandlers \cup PollHandlers \cup {"check_rss"} ]_vars

\* C26 happens: a worker put its outcome while the event-loop thread stood
\* inside check_all_rss, and the poll state is that of the cycle's start
C26_Witness ==
    /\ handler = "_done"
    /\ evpc = "check_all_rss"
    /\ Len(results) = 1
    /\ fetching /\ pending = 2
    /\ JobsRunning = 1

\* the privmsg calls among the effects o, in order
Sends(o) == SelectSeq(o, LAMBDA e : e.op = "privmsg")

\* the outcomes handled according to the effects o, in order: a fetched
\* list shows as the delta_items call, a failure as its report
Handled(o) ==
    SelectSeq(o, LAMBDA e : e.op = "delta_items" \/ IsPrint(e, "Error fetching"))

\* the place in the queue of the outcome of feed url u
PlaceInQueue(u) == CHOOSE k \in DOMAIN results : results[k].feed.url = u

\* C27: the drain loop consumes outcomes in the order of their arrival on
\* the queue, whatever the order of submission: a pass handles a prefix of
\* the queue in queue order, every message for an outcome is sent before
\* any message for an outcome queued behind it, so that the messages of one
\* feed's delta are contiguous, and they are in the delta's delivery order.
C27_FifoConsumption ==
    [][ handler' \in DrainHandlers =>
          /\ results' = SubSeq(results, Popped + 1, Len(results))
          /\ Len(Handled(out')) = Popped
          /\ \A k \in 1..Popped : Handled(out')[k].arg[1] = results[k].feed.url
          /\ \A i \in DOMAIN Sends(out') :
                \E k \in 1..Popped : results[k].feed.url = Sends(out')[i].feed
          /\ \A i, j \in DOMAIN Sends(out') :
                i < j => PlaceInQueue(Sends(out')[i].feed) <= PlaceInQueue(Sends(out')[j].feed)
          /\ \A k \in 1..Popped :
                LET feed == results[k].feed
                IN  (results[k].payload.ok /\ seen[feed.url] # {}) =>
                      IsPrefix(SentFor(out', feed.url),
                               Announcements(feed, seen[feed.url],
                                             results[k].payload.items, TRUE)) ]_vars

\* C27 happens: one pass sent a message for the second feed, whose outcome
\* arrived first, and then a message for the first feed
C27_Witness ==
    /\ handler \in DrainHandlers
    /\ Len(Sends(out)) = 2
    /\ Sends(out)[1].feed = 2
    /\ Sends(out)[2].feed = 1

\* C28: a poll cycle in flight when the connection is lost is not
\* cancelled.  on_disconnect, run for the event or as a retry, leaves
\* fetching, pending, the seen sets, the result queue and the running jobs
\* as they were; a job that completes while the connection is down puts its
\* outcome as at any other time (the queue changes in _done and in drain
\* passes only); a drain_queue call made while the connection is down
\* leaves the queue as it was; and, under fair scheduling, whenever the
\* connection is up with outcomes queued, the queue is eventually emptied
\* by a drain unless the connection goes down again first.
C28_CycleSurvivesDisconnect ==
    /\ [][ /\ handler' \in ReconnectHandlers =>
                UNCHANGED <<fetching, pending, seen, results, running>>
           /\ (handler' = "_done" /\ ~connected) =>
                (Len(results') = Len(results) + 1 /\ JobsRunning' = JobsRunning - 1)
           /\ (handler' \in DrainHandlers /\ ~connected) => results' = results
           /\ results' # results => (handler' \in DrainHandlers \/ handler' = "_done")
         ]_vars
    /\ ((connected /\ results # <<>>) ~> (results = <<>> \/ ~connected))

\* C28 happens: on_disconnect has re-established the connection with a
\* cycle over two feeds in flight, one outcome queued and one job running
C28_Witness ==
    /\ handler \in ReconnectHandlers
    /\ connected
    /\ fetching /\ pending = 2
    /\ Len(results) = 1
    /\ JobsRunning = 1

---------------------------------------------------------------------------

\* the identities entries can have
Identities == { Identity(item) : item \in Items } \ {<<>>}

\* the number of messages among the effects o sent for the entry of
\* identity id of feed u
TimesSent(o, u, id) ==
    Cardinality({ i \in DOMAIN o :
       /\ o[i].op = "privmsg"
       /\ o[i].feed = u
       /\ StartsWith(o[i].text, Prefix(Feed(u)) \o BOLD \o id \o BOLD \o SEPARATOR) })

\* C29: at-most-once delivery, step by step: no step takes an identity out
\* of a feed's seen set; every message a step sends for a feed is the
\* message of one identity; a step sends at most one message for an
\* identity, and only for an identity that was absent from the feed's seen
\* set before the step and is in it after the step.  So an identity that
\* has been sent is in the seen set for ever after and is never sent again,
\* whatever polls, drains, failures and reconnects follow.
C29_AtMostOnceDelivery ==
    [][ \A u \in Urls :
          /\ seen[u] \subseteq seen'[u]
          /\ Len(SentFor(out', u)) =
                Cardinality({ id \in Identities : TimesSent(out', u, id) = 1 })
          /\ \A id \in Identities :
                /\ TimesSent(out', u, id) <= 1
                /\ TimesSent(out', u, id) = 1 => (id \notin seen[u] /\ id \in seen'[u])
      ]_vars

\* C29 happens: a drain pass has sent one message for feed 1, for an
\* identity that joined two identities recorded earlier
C29_Witness ==
    /\ handler \in DrainHandlers
    /\ connected
    /\ seen[1] = Identities
    /\ Cardinality(Identities) = 3
    /\ Len(SentFor(out, 1)) = 1
    /\ \E id \in Identities : TimesSent(out, 1, id) = 1

---------------------------------------------------------------------------

\* C30: for every number n of feeds, 0 included, the pool is created with
\* max(1, min(8, n)) threads, which is at least one, and at no time do more
\* than min(8, n) fetch jobs hold a thread.
C30_PoolSizeBoundsParallelFetches ==
    /\ executor.max_workers = Max(1, Min(8, Len(feeds)))
    /\ executor.max_workers >= 1
    /\ Cardinality(executor.threads) <= Min(8, Len(feeds))

\* C30 happens: with more than 8 feeds, 8 jobs hold a thread and a job waits
C30_Witness ==
    /\ Len(feeds) > 8
    /\ Cardinality(executor.threads) = 8
    /\ Waiting # {}

====
